---- MODULE Spec2Model ----
(***************************************************************************)
(* Model of the capture service of src/index.js: the two request handlers  *)
(* (/api/screenshot, /api/screenrecord), the shared temp directory, the    *)
(* recording engine's asynchronous video write, and the periodic           *)
(* cleanupTempFiles sweep.  Time is in milliseconds, as in the source.     *)
(*                                                                         *)
(* An action is one run of handler code between two awaits: JavaScript     *)
(* runs such a segment to completion, so the request's position (pc) names *)
(* the await it is suspended at.  Timers are exact: the clock never passes *)
(* a pending deadline.                                                     *)
(*                                                                         *)
(* What the source leaves to its environment is a choice of the model:     *)
(*   - every awaited browser call may return or throw, at any time (the    *)
(*     navigation at the latest when its 30 s timeout is due);             *)
(*     browser.close() does not throw, and a context.close() on a context  *)
(*     that is already closed returns without effect;                      *)
(*   - the engine writes the video of a closed context into tempDir at a   *)
(*     time of its own, before or after the 2 s drain delay;               *)
(*   - readdirSync lists the entries in any order; statSync may throw for  *)
(*     an entry, and unlinkSync throws for a sub-directory.                *)
(*                                                                         *)
(* Three specifications share the actions:                                 *)
(*   Spec        one request over an hour, with the sweeper and entries    *)
(*               that are not recordings;                                  *)
(*   SpecPair    concurrent requests in the first 45 seconds, before the   *)
(*               interval timer is due;                                    *)
(*   SpecInputs  one request with every sample of the query parameters.    *)
(***************************************************************************)
EXTENDS Integers, Sequences, FiniteSets, TLC

(* ------------------------------ bounds --------------------------------- *)

\* request slots of Spec, the long run with the sweeper; a slot serves one
\* request
NReq == 1
\* request slots of SpecPair, the concurrent requests of the first minute
NPair == 2
\* the clock of Spec stops at MaxTime milliseconds (61 minutes)
MaxTime == 3660000
\* the clock of SpecPair and SpecInputs stops at EarlyTime milliseconds
EarlyTime == 45000
\* idle time passes in steps of IdleStep milliseconds (29 minutes 58 seconds,
\* so that requests also arrive two seconds before a sweep), and never past
\* a pending timer
IdleStep == 1798000

(* --------------------------- small helpers ----------------------------- *)

null == "null"

\* a query parameter: absent (undefined in req.query) or a string
Absent(empty) == [has |-> FALSE, val |-> empty]
Param(v) == [has |-> TRUE, val |-> v]

\* a JavaScript number that may be NaN
NaN == [nan |-> TRUE, val |-> 0]
Num(n) == [nan |-> FALSE, val |-> n]

Min(a, b) == IF a < b THEN a ELSE b
Max(a, b) == IF a > b THEN a ELSE b

Digits == {"0", "1", "2", "3", "4", "5", "6", "7", "8", "9"}
DigitVal(c) ==
  CASE c = "0" -> 0 [] c = "1" -> 1 [] c = "2" -> 2 [] c = "3" -> 3
    [] c = "4" -> 4 [] c = "5" -> 5 [] c = "6" -> 6 [] c = "7" -> 7
    [] c = "8" -> 8 [] c = "9" -> 9
Alpha == {"a", "b", "c", "d", "e", "f", "h", "i", "l", "m", "n", "o", "p",
          "r", "s", "t", "u", "w", "x"}
Whitespace == {" "}

RECURSIVE SkipWhile(_, _)
\* the suffix of s after its longest prefix of characters in set cs
SkipWhile(s, cs) ==
  IF s # <<>> /\ Head(s) \in cs THEN SkipWhile(Tail(s), cs) ELSE s

RECURSIVE TakeWhile(_, _)
\* the longest prefix of s of characters in set cs
TakeWhile(s, cs) ==
  IF s # <<>> /\ Head(s) \in cs THEN <<Head(s)>> \o TakeWhile(Tail(s), cs)
  ELSE <<>>

RECURSIVE DecimalValue(_, _)
\* the value of the digit string ds, read left to right from accumulator acc
DecimalValue(ds, acc) ==
  IF ds = <<>> THEN acc
  ELSE DecimalValue(Tail(ds), 10 * acc + DigitVal(Head(ds)))

(* ------------------------- parseInt (radix 10) -------------------------- *)

\* JavaScript parseInt(s): leading whitespace skipped, an optional sign, then
\* the longest run of decimal digits; NaN when there is no digit.  (The 0x
\* prefix is not modelled: no input of the model starts with it.)
parseInt(s) ==
  LET t    == SkipWhile(s, Whitespace)
      neg  == t # <<>> /\ Head(t) = "-"
      u    == IF t # <<>> /\ Head(t) \in {"-", "+"} THEN Tail(t) ELSE t
      ds   == TakeWhile(u, Digits)
  IN  IF ds = <<>> THEN NaN
      ELSE IF neg THEN Num(0 - DecimalValue(ds, 0)) ELSE Num(DecimalValue(ds, 0))

MaxDurationSeconds == 30
DefaultDurationSeconds == 10
DefaultDurationParam == <<"1", "0">>

\* line 90: duration = '10' when the query has no duration parameter
DurationParam(q) == IF q.has THEN q.val ELSE DefaultDurationParam

\* a duration without the cap of 30
recordDurationUncapped(duration) ==
  LET p == parseInt(duration)
  IN  IF p.nan \/ p.val = 0 THEN DefaultDurationSeconds ELSE p.val

\* line 117: Math.min(parseInt(duration) || 10, 30); NaN and 0 are falsy
recordDuration(duration) ==
  LET p == parseInt(duration)
      v == IF p.nan \/ p.val = 0 THEN DefaultDurationSeconds ELSE p.val
  IN  Min(v, MaxDurationSeconds)

(* --------------------- validateInput and the devices -------------------- *)

SchemeChars == Alpha \cup Digits \cup {"+", "-", "."}
SpecialSchemes == { <<"h","t","t","p">>, <<"h","t","t","p","s">>,
                    <<"f","t","p">>, <<"w","s">>, <<"w","s","s">> }
Slashes == {"/", "\\"}
HostEnd == {"/", "\\", "?", "#"}

RECURSIVE TakeUntil(_, _)
\* the longest prefix of s with no character in set cs
TakeUntil(s, cs) ==
  IF s # <<>> /\ Head(s) \notin cs THEN <<Head(s)>> \o TakeUntil(Tail(s), cs)
  ELSE <<>>

RECURSIVE Reverse(_)
Reverse(s) == IF s = <<>> THEN <<>> ELSE Reverse(Tail(s)) \o <<Head(s)>>

Trim(s) == Reverse(SkipWhile(Reverse(SkipWhile(s, Whitespace)), Whitespace))

\* line 20: new URL(url) with no base does not throw.  The WHATWG parser
\* trims spaces, requires a scheme (a letter, then letters, digits, + - .)
\* followed by ":", and for a special scheme a non-empty host after any run
\* of slashes; a file: URL and a URL with another scheme need no host.
ParsesAsURL(s) ==
  LET t      == Trim(s)
      scheme == TakeWhile(t, SchemeChars)
      after  == SubSeq(t, Len(scheme) + 1, Len(t))
      rest   == IF after = <<>> THEN <<>> ELSE Tail(after)
      host   == TakeUntil(SkipWhile(rest, Slashes), HostEnd)
  IN  /\ scheme # <<>>
      /\ Head(scheme) \in Alpha
      /\ after # <<>>
      /\ Head(after) = ":"
      /\ (scheme \in SpecialSchemes => host # <<>>)

MissingAddress == "URL parameter is required"
MalformedAddress == "Invalid URL format"
UnknownDevice == "Invalid device. Must be one of: phone, tablet, laptop, desktop, full"

\* line 24
validDevices == {"phone", "tablet", "laptop", "desktop", "full"}

\* lines 17-29; url is a query parameter, device the destructured string
validateInput(url, device) ==
  IF ~url.has \/ url.val = <<>> THEN MissingAddress
  ELSE IF ~ParsesAsURL(url.val) THEN MalformedAddress
  ELSE IF device # "" /\ device \notin validDevices THEN UnknownDevice
  ELSE null

\* lines 57 and 90: device = 'desktop' when the query has no device parameter
DeviceParam(q) == IF q.has THEN q.val ELSE "desktop"

NoViewport == [width |-> 0, height |-> 0]

\* a table whose phone entry is turned to landscape
deviceConfigsLandscape(device) ==
  CASE device = "phone"   -> [width |-> 667,  height |-> 375]
    [] device = "tablet"  -> [width |-> 768,  height |-> 1024]
    [] device = "laptop"  -> [width |-> 1366, height |-> 768]
    [] device = "desktop" -> [width |-> 1920, height |-> 1080]
    [] OTHER              -> NoViewport

\* lines 31-37; full maps to null, and a tag outside the table to undefined
deviceConfigs(device) ==
  CASE device = "phone"   -> [width |-> 375,  height |-> 667]
    [] device = "tablet"  -> [width |-> 768,  height |-> 1024]
    [] device = "laptop"  -> [width |-> 1366, height |-> 768]
    [] device = "desktop" -> [width |-> 1920, height |-> 1080]
    [] OTHER              -> NoViewport

(* ------------------------------ the state ------------------------------- *)

VARIABLES
  now,        \* Date.now(), in milliseconds since the process started
  inputs,     \* the query parameters clients may send (fixed by Init)
  req,        \* one record per request slot: the handler's position and locals
  tempDir,    \* the entries of tempDir: name -> [mtime, ext, data]
  flushing,   \* requests whose closed context still has its video to write
  nextSweep,  \* when the setInterval timer of line 54 fires next
  sweep       \* what the last run of cleanupTempFiles saw and did

vars == <<now, inputs, req, tempDir, flushing, nextSweep, sweep>>

\* line 41
thirtyMinutes == 30 * 60 * 1000
\* line 54
SweepInterval == 30 * 60 * 1000
\* lines 69 and 114
NavTimeout == 30000
\* line 70
ScreenshotSettle == 2000
\* line 115
RecordingSettle == 3000
\* line 121
DrainDelay == 2000
\* line 124
RecencyWindow == 10000

\* entry names: the engine names the video of request i's context itself;
\* "sub" is a sub-directory and "stray" a file that something other than a
\* recording put into tempDir
VideoOf(i) == ToString(i)
ForeignNames == {"sub"}
ForeignExt(n) == IF n = "sub" THEN "dir" ELSE "txt"

Idle ==
  [pc |-> "idle", kind |-> "none", urlQuery |-> Absent(<<>>),
   deviceQuery |-> Absent(""), device |-> "",
   durationQuery |-> Absent(<<>>), duration |-> <<>>,
   verr |-> null, browser |-> "none", context |-> "none", wake |-> {},
   err |-> null, status |-> 0, body |-> "none", threw |-> FALSE, picked |-> {},
   nLaunch |-> 0, nBrowserClose |-> 0, nCtxClose |-> 0, nScan |-> 0,
   viewport |-> NoViewport, fullPage |-> FALSE,
   recDur |-> {}, sleepFrom |-> {}, slept |-> {}, navDone |-> {},
   closedAt |-> {},
   phase |-> "Idle"]

\* n: the sweeps run so far; of the last one: the entries it found (with
\* their modification times), and the entry at which a file system call
\* threw, if one did
NoSweep == [n |-> 0, found |-> << >>, threwAt |-> {}]

\* the state after the module has loaded: an empty temp directory (lines
\* 12-15), the interval timer armed (line 54), no request received
InitWith(n, in) ==
  /\ now = 0
  /\ inputs = in
  /\ req = [i \in 1..n |-> Idle]
  /\ tempDir = << >>
  /\ flushing = {}
  /\ nextSweep = SweepInterval
  /\ sweep = NoSweep

(* ----------------- the code after an await, as operators ---------------- *)

\* a finally that closes the browser only when nothing was caught
FinallyOnSuccessOnly(r) ==
  IF r.browser # "none" /\ r.err = null
  THEN [r EXCEPT !.pc = "browserClose", !.nBrowserClose = @ + 1, !.wake = {}]
  ELSE [r EXCEPT !.pc = "done", !.wake = {}]

\* lines 84-86 and 146-148: if (browser) await browser.close()
Finally(r) ==
  IF r.browser # "none"
  THEN [r EXCEPT !.pc = "browserClose", !.nBrowserClose = @ + 1, !.wake = {}]
  ELSE [r EXCEPT !.pc = "done", !.wake = {}]

\* lines 77-83 and 139-145: res.status(500).json(...); Express throws
\* ERR_HTTP_HEADERS_SENT when a response has already been sent
Respond500(r) ==
  IF r.status # 0 THEN [r EXCEPT !.threw = TRUE]
  ELSE [r EXCEPT !.status = 500, !.body = r.err]

\* lines 76-86: the screenshot handler's catch, then its finally
CatchScreenshot(r, msg) ==
  Finally(Respond500([r EXCEPT !.err = msg, !.phase = "Failed"]))

\* lines 137-148: the recording handler's catch: if (context) await
\* context.close() suspends the handler before the 500 is sent
CatchRecord(r, msg) ==
  LET r1 == [r EXCEPT !.err = msg, !.phase = "Failed"]
  IN  IF r1.context # "none"
      THEN [r1 EXCEPT !.pc = "catchClose", !.nCtxClose = @ + 1, !.wake = {}]
      ELSE Finally(Respond500(r1))

Catch(r, msg) ==
  IF r.kind = "shot" THEN CatchScreenshot(r, msg) ELSE CatchRecord(r, msg)

\* lines 69 and 114: page.goto(url, {waitUntil: 'networkidle', timeout: 30000})
IssueGoto(r, t) ==
  [r EXCEPT !.pc = "goto", !.wake = {t + NavTimeout}, !.phase = "Navigating"]

SettleDelay(kind) == IF kind = "shot" THEN ScreenshotSettle ELSE RecordingSettle

Set(i, r) == req' = [req EXCEPT ![i] = r]

(* ------------------------------ the handlers ---------------------------- *)

\* a handler that launches the browser before it looks at the validation
\* result
ReceiveLaunchFirst(kind, url, dev, dur) ==
  LET device == DeviceParam(dev)
  IN  [Idle EXCEPT !.kind = kind, !.device = device,
                   !.verr = validateInput(url, device),
                   !.pc = "launch", !.nLaunch = 1, !.durationQuery = dur,
                   !.duration = DurationParam(dur)]

\* lines 56-63 and 89-102: the handler up to its first await: the query is
\* destructured and validated; a validation error is answered 400 and the
\* handler returns, otherwise chromium.launch is issued
Receive(kind, url, dev, dur) ==
  LET device == DeviceParam(dev)
      verr   == validateInput(url, device)
      r0     == [Idle EXCEPT !.kind = kind, !.urlQuery = url, !.deviceQuery = dev,
                         !.device = device, !.verr = verr]
  IN  IF verr # null
      THEN [r0 EXCEPT !.pc = "done", !.status = 400, !.body = verr]
      ELSE [r0 EXCEPT !.pc = "launch", !.nLaunch = 1, !.durationQuery = dur,
                      !.duration = DurationParam(dur)]

\* a request arrives.  Slots are taken in order: which slot serves a request
\* makes no difference.  The screenshot handler reads no duration
Start(i) ==
  /\ req[i].pc = "idle"
  /\ \A j \in DOMAIN req : j < i => req[j].pc # "idle"
  /\ \E kind \in {"shot", "rec"}, url \in inputs.urls, dev \in inputs.devices,
        dur \in inputs.durations :
       /\ kind = "shot" => dur = Absent(<<>>)
       /\ Set(i, Receive(kind, url, dev, dur))
  /\ UNCHANGED <<now, inputs, tempDir, flushing, nextSweep, sweep>>

\* lines 63-67 and 99-104: chromium.launch returns or throws
LaunchReturns(i) ==
  /\ req[i].pc = "launch"
  /\ \/ Set(i, [req[i] EXCEPT !.browser = "running",
                 !.pc = IF req[i].kind = "shot" THEN "newPage" ELSE "newContext"])
     \/ Set(i, Catch(req[i], "browser launch failed"))
  /\ UNCHANGED <<now, inputs, tempDir, flushing, nextSweep, sweep>>

\* lines 104-111: browser.newContext({recordVideo: {dir: tempDir, ...}})
NewContextReturns(i) ==
  /\ req[i].pc = "newContext"
  /\ \/ Set(i, [req[i] EXCEPT !.context = "open", !.pc = "newPage"])
     \/ Set(i, Catch(req[i], "newContext failed"))
  /\ UNCHANGED <<now, inputs, tempDir, flushing, nextSweep, sweep>>

\* lines 67-69 and 111-114: newPage returns; the viewport is set unless the
\* device is full
NewPageReturns(i) ==
  /\ req[i].pc = "newPage"
  /\ \/ Set(i, IF req[i].device # "full"
                THEN [req[i] EXCEPT !.pc = "viewport"]
                ELSE IssueGoto(req[i], now))
     \/ Set(i, Catch(req[i], "newPage failed"))
  /\ UNCHANGED <<now, inputs, tempDir, flushing, nextSweep, sweep>>

\* lines 68 and 112: page.setViewportSize(deviceConfigs[device]); it rejects
\* when the table has no entry for the device
ViewportReturns(i) ==
  /\ req[i].pc = "viewport"
  /\ \/ /\ deviceConfigs(req[i].device) # NoViewport
        /\ Set(i, IssueGoto([req[i] EXCEPT !.viewport = deviceConfigs(req[i].device)],
                            now))
     \/ Set(i, Catch(req[i], "setViewportSize failed"))
  /\ UNCHANGED <<now, inputs, tempDir, flushing, nextSweep, sweep>>

\* lines 69-70 and 114-115: the navigation reaches network idle before its
\* timeout, or fails, at the latest by timing out
GotoReturns(i) ==
  /\ req[i].pc = "goto"
  /\ \/ /\ \A t \in req[i].wake : now < t
        /\ Set(i, [req[i] EXCEPT !.pc = "settle", !.phase = "Stabilizing",
                                 !.navDone = {now},
                                 !.wake = {now + SettleDelay(req[i].kind)}])
     \/ Set(i, Catch(req[i], IF now \in req[i].wake THEN "Timeout 30000ms exceeded"
                                                    ELSE "navigation failed"))
  /\ UNCHANGED <<now, inputs, tempDir, flushing, nextSweep, sweep>>

\* lines 70-72 and 115-118: the settle delay has elapsed; the screenshot is
\* requested, or the recording sleep of recordDuration seconds begins
SettleElapsed(i) ==
  /\ req[i].pc = "settle"
  /\ now \in req[i].wake
  /\ IF req[i].kind = "shot"
     THEN Set(i, [req[i] EXCEPT !.pc = "screenshot", !.wake = {}, !.phase = "Capturing",
                               !.fullPage = (req[i].device = "full")])
     ELSE LET d == recordDuration(req[i].duration)
          IN  Set(i, [req[i] EXCEPT !.pc = "record", !.phase = "Capturing",
                                   !.recDur = {d}, !.sleepFrom = {now},
                                   !.wake = {now + Max(0, d * 1000)}])
  /\ UNCHANGED <<now, inputs, tempDir, flushing, nextSweep, sweep>>

\* lines 72-75: page.screenshot returns the image, which is sent
ScreenshotReturns(i) ==
  /\ req[i].pc = "screenshot"
  /\ \/ Set(i, Finally([req[i] EXCEPT !.status = 200, !.body = "png",
                                       !.phase = "Done"]))
     \/ Set(i, Catch(req[i], "screenshot failed"))
  /\ UNCHANGED <<now, inputs, tempDir, flushing, nextSweep, sweep>>

\* lines 118-120: the recording sleep has elapsed; context.close() is issued
RecordElapsed(i) ==
  /\ req[i].pc = "record"
  /\ now \in req[i].wake
  /\ Set(i, [req[i] EXCEPT !.pc = "ctxClose", !.wake = {}, !.nCtxClose = @ + 1,
                           !.slept = {now - t : t \in req[i].sleepFrom}])
  /\ UNCHANGED <<now, inputs, tempDir, flushing, nextSweep, sweep>>

\* a handler that scans as soon as context.close() has returned
CtxCloseReturnsNoDrain(i) ==
  /\ req[i].pc = "ctxClose"
  /\ Set(i, [req[i] EXCEPT !.context = "closed", !.pc = "drain",
                           !.closedAt = {now}, !.wake = {now}])
  /\ flushing' = flushing \cup {i}
  /\ UNCHANGED <<now, inputs, tempDir, nextSweep, sweep>>

\* lines 120-121: context.close() returns, which leaves the video to be
\* written, and the 2 s drain delay starts; or it throws
CtxCloseReturns(i) ==
  /\ req[i].pc = "ctxClose"
  /\ \/ /\ Set(i, [req[i] EXCEPT !.context = "closed", !.pc = "drain",
                                 !.closedAt = {now},
                                 !.wake = {now + DrainDelay}])
        /\ flushing' = flushing \cup {i}
     \/ /\ Set(i, Catch(req[i], "context close failed"))
        /\ UNCHANGED flushing
  /\ UNCHANGED <<now, inputs, tempDir, nextSweep, sweep>>

\* fs.readdirSync(tempDir) returns the names in an order the file system
\* chooses: every order of the entries is possible
Orders(S) ==
  {o \in [1..Cardinality(S) -> S] :
     \A a, b \in 1..Cardinality(S) : a # b => o[a] # o[b]}

Remove(dir, f) == [n \in DOMAIN dir \ {f} |-> dir[n]]

\* an unlink that leaves the file in place
unlinkSyncKeeps(dir, f) == dir

\* lines 48 and 135: fs.unlinkSync of a regular file that exists
unlinkSync(dir, f) == Remove(dir, f)
Add(dir, f, e) == [n \in DOMAIN dir \cup {f} |-> IF n = f THEN e ELSE dir[n]]

\* line 123: the names that end in .webm, in readdir order
videoFiles(dir, ord) == SelectSeq(ord, LAMBDA f : dir[f].ext = "webm")

\* a scan that takes a video of any age
RecentVideosAnyAge(dir, vf, t) == vf

\* line 124: the names of vf modified within the last 10 seconds; find
\* returns the first of them
RecentVideos(dir, vf, t) == SelectSeq(vf, LAMBDA f : dir[f].mtime > t - RecencyWindow)

\* lines 121-135: the drain delay has elapsed.  Scan, read, send and delete
\* run without an await; unlinkSync may throw after the 200 has been sent
DrainElapsed(i) ==
  /\ req[i].pc = "drain"
  /\ now \in req[i].wake
  /\ \E ord \in Orders(DOMAIN tempDir) :
       LET hits == RecentVideos(tempDir, videoFiles(tempDir, ord), now)
           r    == [req[i] EXCEPT !.nScan = @ + 1, !.wake = {}]
       IN  IF hits = << >>
           THEN /\ Set(i, Catch(r, "Video file not found"))
                /\ UNCHANGED tempDir
           ELSE LET videoFile == Head(hits)
                    sent == [r EXCEPT !.status = 200, !.phase = "Done",
                                      !.picked = {videoFile},
                                      !.body = tempDir[videoFile].data]
                IN  \/ /\ tempDir' = unlinkSync(tempDir, videoFile)
                       /\ Set(i, Finally(sent))
                    \/ /\ UNCHANGED tempDir
                       /\ Set(i, Catch(sent, "unlink failed"))
  /\ UNCHANGED <<now, inputs, flushing, nextSweep, sweep>>

\* lines 138-145: the catch block's context.close() returns (a no-op on a
\* context that is already closed) and the 500 is sent; or it throws, and
\* the handler leaves the catch block without sending anything
CatchCloseReturns(i) ==
  /\ req[i].pc = "catchClose"
  /\ \/ /\ Set(i, Finally(Respond500([req[i] EXCEPT !.context = "closed"])))
        /\ flushing' = IF req[i].context = "open" THEN flushing \cup {i} ELSE flushing
     \/ /\ req[i].context = "open"
        /\ Set(i, Finally([req[i] EXCEPT !.threw = TRUE]))
        /\ UNCHANGED flushing
  /\ UNCHANGED <<now, inputs, tempDir, nextSweep, sweep>>

\* a browser.close() that returns and leaves the browser process running
BrowserCloseReturnsLeaves(i) ==
  /\ req[i].pc = "browserClose"
  /\ Set(i, [req[i] EXCEPT !.pc = "done"])
  /\ UNCHANGED <<now, inputs, tempDir, flushing, nextSweep, sweep>>

\* lines 85 and 147: browser.close() returns; the browser process is gone,
\* and with it a context that was still open
BrowserCloseReturns(i) ==
  /\ req[i].pc = "browserClose"
  /\ Set(i, [req[i] EXCEPT !.pc = "done", !.browser = "closed",
                           !.context = IF @ = "open" THEN "closed" ELSE @])
  /\ UNCHANGED <<now, inputs, tempDir, flushing, nextSweep, sweep>>

(* ---------------------------- the environment --------------------------- *)

\* the recording engine writes the video of a closed context into tempDir
\* (lines 105-106: recordVideo.dir), at a time of its own choosing
Flush(i) ==
  /\ i \in flushing
  /\ flushing' = flushing \ {i}
  /\ tempDir' = Add(tempDir, VideoOf(i),
                    [mtime |-> now, ext |-> "webm", data |-> VideoOf(i)])
  /\ UNCHANGED <<now, inputs, req, nextSweep, sweep>>

\* something other than a recording puts an entry into tempDir
ForeignCreate(n) ==
  /\ n \in ForeignNames \ DOMAIN tempDir
  /\ tempDir' = Add(tempDir, n, [mtime |-> now, ext |-> ForeignExt(n), data |-> n])
  /\ UNCHANGED <<now, inputs, req, flushing, nextSweep, sweep>>

(* ------------------------------ the sweeper ----------------------------- *)

\* a threshold test that also takes an entry of exactly thirty minutes
ExpiredAtThreshold(t, mtime) == t - mtime >= thirtyMinutes

\* a threshold test with the comparison turned round
ExpiredWhenYoung(t, mtime) == t - mtime < thirtyMinutes

\* line 47: the entry is older than thirty minutes
Expired(t, mtime) == t - mtime > thirtyMinutes

RECURSIVE SweepEntries(_, _, _, _)
\* lines 44-50 inside the try of lines 42-51: files.forEach over the names
\* ord.  statSync throws for the names in stuck, unlinkSync throws for a
\* directory; the first throw leaves forEach, and the catch swallows it.
\* The result is the directory left behind and the entry that threw, if any.
SweepEntries(dir, ord, t, stuck) ==
  IF ord = << >> THEN [dir |-> dir, threwAt |-> {}]
  ELSE LET file == Head(ord)
       IN  IF file \in stuck THEN [dir |-> dir, threwAt |-> {file}]
           ELSE IF Expired(t, dir[file].mtime)
           THEN IF dir[file].ext = "dir" THEN [dir |-> dir, threwAt |-> {file}]
                ELSE SweepEntries(unlinkSync(dir, file), Tail(ord), t, stuck)
           ELSE SweepEntries(dir, Tail(ord), t, stuck)

\* lines 39-54: the interval timer fires and cleanupTempFiles runs
cleanupTempFiles ==
  /\ now = nextSweep
  /\ \E ord \in Orders(DOMAIN tempDir), stuck \in SUBSET DOMAIN tempDir :
       LET res == SweepEntries(tempDir, ord, now, stuck)
       IN  /\ Cardinality(stuck) <= 1
           /\ tempDir' = res.dir
           /\ sweep' = [n |-> sweep.n + 1, found |-> tempDir, threwAt |-> res.threwAt]
  /\ nextSweep' = nextSweep + SweepInterval
  /\ UNCHANGED <<now, inputs, req, flushing>>

(* ------------------------------- the clock ------------------------------ *)

Deadlines == {nextSweep} \cup UNION {req[i].wake : i \in DOMAIN req}

\* time passes, up to the next deadline: a timer fires when it is due
Tick(horizon) ==
  /\ \A t \in Deadlines : now < t
  /\ now < horizon
  /\ now' = Min(horizon, Min(now + IdleStep,
                             CHOOSE t \in Deadlines : \A u \in Deadlines : t <= u))
  /\ UNCHANGED <<inputs, req, tempDir, flushing, nextSweep, sweep>>

(* ------------------------------ the system ------------------------------ *)

Next ==
  \/ \E i \in DOMAIN req : Start(i)
  \/ \E i \in DOMAIN req : LaunchReturns(i)
  \/ \E i \in DOMAIN req : NewContextReturns(i)
  \/ \E i \in DOMAIN req : NewPageReturns(i)
  \/ \E i \in DOMAIN req : ViewportReturns(i)
  \/ \E i \in DOMAIN req : GotoReturns(i)
  \/ \E i \in DOMAIN req : SettleElapsed(i)
  \/ \E i \in DOMAIN req : ScreenshotReturns(i)
  \/ \E i \in DOMAIN req : RecordElapsed(i)
  \/ \E i \in DOMAIN req : CtxCloseReturns(i)
  \/ \E i \in DOMAIN req : DrainElapsed(i)
  \/ \E i \in DOMAIN req : CatchCloseReturns(i)
  \/ \E i \in DOMAIN req : BrowserCloseReturns(i)
  \/ \E i \in DOMAIN req : Flush(i)
  \/ \E n \in ForeignNames : ForeignCreate(n)
  \/ cleanupTempFiles
  \/ Tick(MaxTime)

\* the first EarlyTime milliseconds after startup: the interval timer is not
\* due yet, and nothing but recordings writes into tempDir
NextEarly ==
  \/ \E i \in DOMAIN req : Start(i)
  \/ \E i \in DOMAIN req : LaunchReturns(i)
  \/ \E i \in DOMAIN req : NewContextReturns(i)
  \/ \E i \in DOMAIN req : NewPageReturns(i)
  \/ \E i \in DOMAIN req : ViewportReturns(i)
  \/ \E i \in DOMAIN req : GotoReturns(i)
  \/ \E i \in DOMAIN req : SettleElapsed(i)
  \/ \E i \in DOMAIN req : ScreenshotReturns(i)
  \/ \E i \in DOMAIN req : RecordElapsed(i)
  \/ \E i \in DOMAIN req : CtxCloseReturns(i)
  \/ \E i \in DOMAIN req : DrainElapsed(i)
  \/ \E i \in DOMAIN req : CatchCloseReturns(i)
  \/ \E i \in DOMAIN req : BrowserCloseReturns(i)
  \/ \E i \in DOMAIN req : Flush(i)
  \/ Tick(EarlyTime)

\* query strings used as inputs
UrlOk == <<"h","t","t","p","s",":","/","/","a",".","c","o">>
UrlNotAUrl == <<"n","o","t","-","a","-","u","r","l">>
UrlSamples ==
  { UrlOk, UrlNotAUrl, <<>>,
    <<"h","t","t","p",":","/","/">>,
    <<"m","a","i","l","t","o",":","x">>,
    <<"/","/","a",".","c","o">>,
    <<"1","t","t","p",":","/","/","a">>,
    <<" ","h","t","t","p",":","/","/","a"," ">>,
    <<"a",".","c","o">> }
DeviceSamples == {"", "phone", "tablet", "laptop", "desktop", "full", "watch"}

DigitChar(n) ==
  CASE n = 0 -> "0" [] n = 1 -> "1" [] n = 2 -> "2" [] n = 3 -> "3"
    [] n = 4 -> "4" [] n = 5 -> "5" [] n = 6 -> "6" [] n = 7 -> "7"
    [] n = 8 -> "8" [] n = 9 -> "9"
\* the decimal numeral of n, 0 <= n <= 99, as a client writes it
Decimal(n) ==
  IF n < 10 THEN <<DigitChar(n)>> ELSE <<DigitChar(n \div 10), DigitChar(n % 10)>>

\* the largest duration, in seconds, a client asks for
MaxAsked == 61
DurationSamples ==
  { <<>>, <<"a","b","c">>, <<"-","5">>, <<"1","5","s">>, <<" ","7">> }
    \cup {Decimal(d) : d \in 0..MaxAsked}

SmallInputs ==
  [urls      |-> {Param(UrlOk), Param(UrlNotAUrl)},
   devices   |-> {Absent(""), Param("full"), Param("")},
   durations |-> {Absent(<<>>), Param(<<"1">>)}]

Init == InitWith(NReq, SmallInputs)

\* one request at a time over an hour, with the sweeper
Spec == Init /\ [][Next]_vars

PairInputs ==
  [urls      |-> {Param(UrlOk), Param(UrlNotAUrl)},
   devices   |-> {Absent("")},
   durations |-> {Absent(<<>>), Param(<<"1">>)}]

InitPair == InitWith(NPair, PairInputs)

\* concurrent requests
SpecPair == InitPair /\ [][NextEarly]_vars

WideInputs ==
  [urls      |-> {Absent(<<>>)} \cup {Param(u) : u \in UrlSamples},
   devices   |-> {Absent("")} \cup {Param(d) : d \in DeviceSamples},
   durations |-> {Absent(<<>>)} \cup {Param(d) : d \in DurationSamples}]

InitInputs == InitWith(NReq, WideInputs)

\* one request, with every sample of the query parameters
SpecInputs == InitInputs /\ [][NextEarly]_vars

(* ------------------------------- the claims ----------------------------- *)

Finished(r) == r.pc = "done"
InFlight(r) == r.pc \notin {"idle", "done"}
RunningBrowsers == {i \in DOMAIN req : req[i].browser = "running"}

\* C1: leak freedom.  When a handler has finished, on whatever path, the
\* browser it launched is closed; so with no request in flight no browser
\* process is running.
C1_LeakFreedom ==
  /\ \A i \in DOMAIN req : Finished(req[i]) => req[i].browser # "running"
  /\ (\A i \in DOMAIN req : ~InFlight(req[i])) => Cardinality(RunningBrowsers) = 0

\* a recording whose launch succeeded has finished through a context close
\* that threw inside the catch block, next to one that timed out navigating
C1_Witness ==
  \E i, j \in DOMAIN req :
    /\ Finished(req[i]) /\ req[i].threw /\ req[i].status = 0
    /\ req[i].browser = "closed"
    /\ Finished(req[j]) /\ req[j].err = "Timeout 30000ms exceeded"
    /\ req[j].browser = "closed"

\* C2: every session acquired is released exactly once.  A finished request
\* has issued browser.close() once if its launch succeeded (and never
\* otherwise) and context.close() once if its context was created.
C2_ReleasedExactlyOnce ==
  \A i \in DOMAIN req :
    Finished(req[i]) =>
      /\ req[i].nBrowserClose = (IF req[i].browser # "none" THEN 1 ELSE 0)
      /\ req[i].nCtxClose = (IF req[i].context # "none" THEN 1 ELSE 0)

Rejected(r) == r.verr # null

\* C3: a request that fails validation is answered 400 and allocates
\* nothing.  The step that rejects it launches no browser, creates no
\* context, leaves tempDir and the pending video writes alone and ends the
\* handler; nothing happens to the request afterwards.
C3_RejectionAllocatesNothing ==
  [][\A i \in DOMAIN req :
       /\ (req[i].pc = "idle" /\ Rejected(req'[i])) =>
            /\ req'[i].pc = "done"
            /\ req'[i].status = 400
            /\ req'[i].body \in {MissingAddress, MalformedAddress, UnknownDevice}
            /\ req'[i].nLaunch = 0
            /\ req'[i].browser = "none"
            /\ req'[i].context = "none"
            /\ req'[i].phase = "Idle"
            /\ tempDir' = tempDir
            /\ flushing' = flushing
       /\ Rejected(req[i]) => req'[i] = req[i]]_vars

\* a request with an unknown device tag has been answered 400
C3_Witness ==
  \E i \in DOMAIN req :
    /\ req[i].verr = UnknownDevice
    /\ req[i].status = 400
    /\ Finished(req[i])

\* the recording handler ran its try block to the end: 200 sent, nothing
\* thrown
RecordingSucceeded(r) ==
  r.kind = "rec" /\ Finished(r) /\ r.status = 200 /\ r.err = null

\* C4: recording mode, success path.  The body of the 200 response is the
\* content of the file the scan selected, and that file is not in tempDir
\* once the handler has finished.
C4_RecordingConsumed ==
  \A i \in DOMAIN req :
    RecordingSucceeded(req[i]) =>
      /\ Cardinality(req[i].picked) = 1
      /\ \A f \in req[i].picked :
           /\ req[i].body = f
           /\ f \notin DOMAIN tempDir

\* two recordings have succeeded, one of them with the other's file
C4_Witness ==
  \E i, j \in DOMAIN req :
    /\ i # j
    /\ RecordingSucceeded(req[i]) /\ RecordingSucceeded(req[j])
    /\ req[i].picked = {VideoOf(j)}

\* C5: request-scoped artifact lifetime.  Once a recording handler has
\* finished, on whatever path, the file its own context recorded is not in
\* tempDir.
C5_OwnRecordingGone ==
  \A i \in DOMAIN req :
    (req[i].kind = "rec" /\ Finished(req[i])) => VideoOf(i) \notin DOMAIN tempDir

\* when the last sweep started
LastSweepStart == nextSweep - SweepInterval

\* C6: retention sweeper threshold.  A sweep in which no file system call
\* throws deletes every entry modified more than 30 minutes before the
\* sweep started, retains every entry of 30 minutes or younger, and creates
\* or modifies nothing.
C6_SweepThreshold ==
  [][(sweep'.n # sweep.n /\ sweep'.threwAt = {}) =>
       /\ DOMAIN tempDir' =
            {f \in DOMAIN tempDir : now - tempDir[f].mtime <= 30 * 60 * 1000}
       /\ \A f \in DOMAIN tempDir' : tempDir'[f] = tempDir[f]]_vars

\* a sweep without an error has just deleted a file older than 30 minutes
\* and retained an entry that was exactly 30 minutes old
C6_Witness ==
  /\ sweep.n > 0
  /\ sweep.threwAt = {}
  /\ now = LastSweepStart
  /\ \E f, g \in DOMAIN sweep.found :
       /\ LastSweepStart - sweep.found[f].mtime > 30 * 60 * 1000
       /\ f \notin DOMAIN tempDir
       /\ LastSweepStart - sweep.found[g].mtime = 30 * 60 * 1000
       /\ g \in DOMAIN tempDir

\* C7: sweeper error isolation.  When a file system call throws at one
\* entry during a sweep, the sweep still deletes every other expired file
\* of the directory.
C7_SweepIsolatesErrors ==
  [][sweep'.n # sweep.n =>
       \A f \in DOMAIN tempDir \ sweep'.threwAt :
         (tempDir[f].ext # "dir" /\ now - tempDir[f].mtime > 30 * 60 * 1000)
           => f \notin DOMAIN tempDir']_vars

\* C8: retention bound.  No file is in tempDir at an age above 60 minutes.
\* (Read in the claim's favour: a file at which the last sweep's own stat
\* or unlink threw is not counted, nor is a sub-directory.)
C8_RetentionBound ==
  \A f \in DOMAIN tempDir \ sweep.threwAt :
    tempDir[f].ext # "dir" => now - tempDir[f].mtime <= 60 * 60 * 1000

\* C9: duration range.  Whatever the duration parameter, the recording
\* handler sleeps between 1 and 30 seconds after stabilization.
C9_DurationInRange ==
  \A i \in DOMAIN req :
    /\ \A d \in req[i].recDur : 1 <= d /\ d <= 30
    /\ \A ms \in req[i].slept : 1000 <= ms /\ ms <= 30000

\* what C10 says the duration is: 10 for an absent parameter or 0, 30 above
\* 30, d itself from 1 to 30; nothing for other strings
ClaimedDuration(q) ==
  IF ~q.has THEN {10}
  ELSE {IF d = 0 THEN 10 ELSE IF d > 30 THEN 30 ELSE d :
          d \in {e \in 0..MaxAsked : q = Param(Decimal(e))}}

\* C10: duration mapping.  The recording duration is the claimed one, the
\* handler is still asleep until that many seconds after the end of the 3 s
\* stabilization delay, and context.close() is issued exactly then.
C10_DurationMapping ==
  \A i \in DOMAIN req :
    \A w \in ClaimedDuration(req[i].durationQuery) :
      /\ req[i].recDur \subseteq {w}
      /\ req[i].slept \subseteq {1000 * w}
      /\ req[i].pc = "record" => \A t \in req[i].sleepFrom : now <= t + 1000 * w
      /\ (req[i].kind = "rec" /\ req[i].pc \in {"ctxClose", "drain"})
           => req[i].slept # {}

\* a request that asked for 45 seconds has slept 30 and closed its context,
\* the video not yet scanned for
C10_Witness ==
  \E i \in DOMAIN req :
    /\ req[i].durationQuery = Param(<<"4", "5">>)
    /\ req[i].slept = {30000}
    /\ req[i].pc = "drain"

\* the sampled addresses that are well-formed absolute URLs
WellFormedSamples ==
  { UrlOk, <<"m","a","i","l","t","o",":","x">>,
    <<" ","h","t","t","p",":","/","/","a"," ">> }

\* what C11 says validateInput returns for a query
ClaimedValidation(u, d) ==
  IF ~u.has \/ u.val = <<>> THEN MissingAddress
  ELSE IF u.val \notin WellFormedSamples THEN MalformedAddress
  ELSE IF d.has /\ d.val \notin {"phone", "tablet", "laptop", "desktop", "full"}
       THEN UnknownDevice
  ELSE null

\* C11: validator result.  For every request received, the validation
\* result is the missing-address error, else the malformed-address error,
\* else the unknown-device error for a present tag outside the five known
\* ones, else no error.
C11_ValidatorResult ==
  \A i \in DOMAIN req :
    req[i].kind # "none" =>
      req[i].verr = ClaimedValidation(req[i].urlQuery, req[i].deviceQuery)

\* the viewport C12 says the page has when navigation starts
ClaimedViewport(d) ==
  IF ~d.has \/ d.val = "desktop" THEN [width |-> 1920, height |-> 1080]
  ELSE IF d.val = "phone"  THEN [width |-> 375,  height |-> 667]
  ELSE IF d.val = "tablet" THEN [width |-> 768,  height |-> 1024]
  ELSE IF d.val = "laptop" THEN [width |-> 1366, height |-> 768]
  ELSE NoViewport

Navigated(r) == r.phase \in {"Navigating", "Stabilizing", "Capturing", "Done"}

\* C12: viewport mapping.  In both modes, once navigation has been issued
\* the viewport set on the page is the table's entry for the device tag
\* (desktop when the tag is absent) and no viewport was set for full; a
\* screenshot is requested full-page exactly when the tag is full.
C12_ViewportMapping ==
  \A i \in DOMAIN req :
    /\ Navigated(req[i]) =>
         req[i].viewport = ClaimedViewport(req[i].deviceQuery)
    /\ (req[i].kind = "shot" /\ req[i].phase \in {"Capturing", "Done"}) =>
         (req[i].fullPage <=> req[i].deviceQuery = Param("full"))

\* a recording with the phone tag has reached its capture
C12_Witness ==
  \E i \in DOMAIN req :
    /\ req[i].deviceQuery = Param("phone")
    /\ req[i].kind = "rec"
    /\ req[i].phase = "Capturing"
    /\ req[i].viewport = [width |-> 375, height |-> 667]

\* a stage of the handler has failed: its catch block was entered
StageFailed(r) == r.err # null

\* C13: failure response, no retry.  A finished request one of whose stages
\* failed after validation was answered 500 with the failure's message as
\* body, and nothing was thrown past the handler; no request launches or
\* scans more than once.
C13_FailureAnswered500 ==
  \A i \in DOMAIN req :
    /\ (Finished(req[i]) /\ StageFailed(req[i])) =>
         (req[i].status = 500 /\ req[i].body = req[i].err /\ ~req[i].threw)
    /\ req[i].nLaunch <= 1
    /\ req[i].nScan <= 1

\* the settle delay C14 names for each mode
ClaimedSettle(kind) == IF kind = "shot" THEN 2000 ELSE 3000

\* the steps of the request state machine of C14
PhaseSteps ==
  { <<"Idle", "Navigating">>, <<"Navigating", "Stabilizing">>,
    <<"Stabilizing", "Capturing">>, <<"Capturing", "Done">> }
  \cup { <<p, "Failed">> : p \in {"Idle", "Navigating", "Stabilizing", "Capturing"} }

\* C14: capture state machine ordering.  Every change of a request's state
\* is one step along Idle, Navigating, Stabilizing, Capturing, Done or a
\* step from a state before Done to Failed, so that no state is skipped or
\* revisited and Done and Failed are terminal: a request that has yielded
\* its artifact (the 200) is in Done after the step that sent it; and
\* capture starts only when navigation has completed and the settle delay
\* has since elapsed.
C14_StateOrdering ==
  [][\A i \in DOMAIN req :
       /\ req'[i].status = 200 => req'[i].phase = "Done"
       /\ req'[i].phase # req[i].phase =>
            /\ <<req[i].phase, req'[i].phase>> \in PhaseSteps
            /\ req'[i].phase = "Capturing" =>
                 /\ req[i].navDone # {}
                 /\ \A t \in req[i].navDone :
                      now >= t + ClaimedSettle(req[i].kind)]_vars

\* the request's correlator has scanned tempDir (line 123)
Scanned(r) == r.nScan > 0

\* C15: recording finalize ordering.  The step in which a recording
\* request scans tempDir starts with that request's context closed, the
\* close of line 120 having returned at least 2 s earlier.
C15_ScanAfterDrain ==
  [][\A i \in DOMAIN req :
       req'[i].nScan > req[i].nScan =>
         /\ req[i].context = "closed"
         /\ req[i].closedAt # {}
         /\ \A t \in req[i].closedAt : now >= t + 2000]_vars

\* a recording request has scanned tempDir
C15_Witness ==
  \E i \in DOMAIN req :
    req[i].kind = "rec" /\ Scanned(req[i]) /\ req[i].closedAt # {}

\* the .webm entries of tempDir modified within the 10 s before t
RecentlyWritten(t) ==
  {f \in DOMAIN tempDir : tempDir[f].ext = "webm" /\ tempDir[f].mtime > t - 10000}

\* C16: cross-request misattribution.  The scan goes by recency alone: the
\* step in which a request scans serves it a .webm modified within the
\* last 10 s, whichever context wrote it, and fails it with 'Video file
\* not found' when there is none, whatever its own context produced.  So
\* a request can be served another request's file, and a request whose
\* context produced a file can fail (C16_Witness).
C16_RecencyOnly ==
  [][\A i \in DOMAIN req :
       req'[i].nScan > req[i].nScan =>
         IF RecentlyWritten(now) = {}
         THEN req'[i].err = "Video file not found" /\ req'[i].status # 200
         ELSE /\ req'[i].status = 200
              /\ req'[i].picked # {}
              /\ req'[i].picked \subseteq RecentlyWritten(now)]_vars

\* one request has been answered 200 with the file that the other one's
\* context wrote, and the other one has failed with 'Video file not found'
C16_Witness ==
  \E i, j \in DOMAIN req :
    /\ i # j
    /\ req[i].status = 200
    /\ req[i].picked = {VideoOf(j)}
    /\ req[j].closedAt # {}
    /\ j \notin flushing
    /\ req[j].err = "Video file not found"
    /\ req[j].status = 500

\* request i has closed its context at line 120 and its correlator has not
\* scanned yet, and the recording its context wrote lies in tempDir
AwaitsOwnRecording(i) ==
  /\ InFlight(req[i])
  /\ req[i].closedAt # {}
  /\ ~Scanned(req[i])
  /\ VideoOf(i) \in DOMAIN tempDir

\* C17: sweeper and in-flight recordings.  A run of the sweeper leaves in
\* tempDir the recording of every request that is still in flight and has
\* not scanned yet; that recording is less than 30 minutes old.
C17_SweepSparesInFlight ==
  [][sweep'.n > sweep.n =>
       \A i \in DOMAIN req :
         AwaitsOwnRecording(i) =>
           /\ VideoOf(i) \in DOMAIN tempDir'
           /\ now - tempDir[VideoOf(i)].mtime < 30 * 60 * 1000]_vars

\* the sweeper has run over the recording of a request that is waiting to
\* scan, and the recording is still there
C17_Witness ==
  \E i \in DOMAIN req :
    /\ AwaitsOwnRecording(i)
    /\ sweep.n > 0
    /\ VideoOf(i) \in DOMAIN sweep.found
    /\ \A t \in req[i].closedAt : t <= LastSweepStart

InFlightRequests == {i \in DOMAIN req : InFlight(req[i])}

\* C18: session ownership.  A request launches at most one browser, and
\* has launched exactly one once it holds one; a running browser and an
\* open context belong to a request in flight, the context inside that
\* request's own running browser, so neither is held by two requests; and
\* the running browsers are never more than the requests in flight.
C18_SessionOwnership ==
  /\ \A i \in DOMAIN req :
       /\ req[i].nLaunch <= 1
       /\ req[i].browser # "none" => req[i].nLaunch = 1
       /\ req[i].browser = "running" => InFlight(req[i])
       /\ req[i].context = "open" =>
            (req[i].browser = "running" /\ req[i].kind = "rec")
  /\ Cardinality(RunningBrowsers) <= Cardinality(InFlightRequests)

\* two requests are in flight, each with its own running browser, one of
\* them with an open context
C18_Witness ==
  /\ Cardinality(RunningBrowsers) = 2
  /\ \E i \in DOMAIN req : req[i].context = "open"

\* request i has been served the recording f
Served(i, f) == req[i].status = 200 /\ f \in req[i].picked

\* the delete that followed request i's send threw (line 135)
DeleteFailed(i) == req[i].err = "unlink failed"

\* C19: atomic artifact consumption.  A recording is read and served by at
\* most one request.
C19_ServedAtMostOnce ==
  \A i, j \in DOMAIN req :
    i # j => req[i].picked \cap req[j].picked = {}

\* what does hold of C19.  In the step in which a request scans and is
\* served, the file it found is in tempDir when it is read, its
\* content is what is sent, and, unless the delete throws, it is gone from
\* tempDir when the step ends; and a recording is served to two requests
\* only if the delete of the one served first threw.
C19_AtomicConsumption ==
  [][\A i \in DOMAIN req :
       (req'[i].nScan > req[i].nScan /\ req'[i].status = 200) =>
         \A f \in req'[i].picked :
           /\ f \in DOMAIN tempDir
           /\ req'[i].body = tempDir[f].data
           /\ req'[i].err = null => f \notin DOMAIN tempDir'
           /\ \A j \in DOMAIN req \ {i} : Served(j, f) => DeleteFailed(j)]_vars

\* a request has been served a recording while the other one was waiting
\* to scan, and the recording has been deleted
C19_Witness ==
  \E i, j \in DOMAIN req :
    /\ i # j
    /\ req[i].status = 200 /\ req[i].err = null
    /\ req[i].picked # {} /\ req[i].picked \cap DOMAIN tempDir = {}
    /\ req[j].pc = "drain"

\* C20: total response.  A request whose handler has ended has been
\* answered, with 400, 200 or 500, and nothing was thrown past the handler
\* by an attempt to answer it again.
C20_ExactlyOneResponse ==
  \A i \in DOMAIN req :
    (Finished(req[i]) /\ req[i].kind # "none") =>
      (req[i].status \in {400, 200, 500} /\ ~req[i].threw)

====
